---- MODULE Spec2Model ----
(***************************************************************************)
(* Substrate side of the AkropolisOS token bridge (runtime/src/bridge.rs). *)
(* Validators attest external events with eth2substrate / substrate2eth;   *)
(* each attestation resolves or creates a proposal, votes on it and, at    *)
(* the 51% threshold, executes the mint/burn and closes the proposal.      *)
(* on_finalize expires the proposals whose deadline is the current block.  *)
(*                                                                         *)
(* The runtime is the pre-transactional Substrate (parity_codec, As): a    *)
(* dispatchable that returns Err keeps every storage write and event it    *)
(* made before the error.                                                  *)
(***************************************************************************)
EXTENDS Integers, Sequences, FiniteSets, TLC

\* ------------------------------------------------------------- bounds
MaxValidators == 6      \* ValidatorsCount is drawn from 1..MaxValidators
VotingPeriod == 1       \* BridgeProposalsPeriodLimit of the modelled chain
MaxBlock == 4           \* last block whose on_finalize is modelled
IdBits == 2             \* width of ProposalId in the model
MaxBalance == 2         \* largest TokenBalance value in the model
MaxCalls == 2           \* executor invocations followed per proposal
FracBits == 20          \* fraction bits kept of an f64 quotient

\* ------------------------------------------------- program constants
open_proposals_per_block == 2
DefaultTokenId == 0

\* ---------------------------------------------------------- inputs
Validators == {1, 2}     \* origins that sign submissions
Accounts == {1}          \* token holders named in actions
Amounts == {1}
Messages == {"m1", "m2"}
EthAddresses == {"0x00b4"}
Blocks == 1..MaxBlock
MaxId == 2^IdBits - 1

OK == "Ok"
ErrNotExists == "This proposal not exists"
ErrNotOpen == "This proposal is not open"
ErrCapacity == "Maximum number of open proposals is reached for the target block, try later"
ErrAlreadyOpen == "This proposal already open"
ErrOverflow == "Overflow adding a new bridge proposal"
ErrLedger == "ExecutionError"

VARIABLES
    block,                          \* system::block_number()
    validators_count,               \* ValidatorsCount (genesis config)
    BridgeProposals,                \* ProposalId -> BridgeProposal
    BridgeProposalsCount,
    OpenBridgeProposals,            \* BlockNumber -> Vec<ProposalId>
    OpenBridgeProposalsHashes,      \* Hash -> ProposalId
    OpenBridgeProposalsHashesIndex, \* ProposalId -> Hash
    EthereumAdressHashes,           \* ProposalId -> Vec<u8>
    Balance,                        \* token module: (token 0, account) -> balance
    TotalSupply,                    \* token module: total supply of token 0
    events,                         \* events deposited by the last step
    lastCall,                       \* the last step: its inputs and its result
    executorCalls,                  \* history: execute_proposal invocations per id
    executed,                       \* history: successful executions per id
    terminal,                       \* history: terminal notifications per id
    fingerprint,                    \* history: the hash each id was created for
    ballots,                        \* history: votes counted per voter, open ids
    created                         \* history: the ids handed out, in order

vars == <<block, validators_count, BridgeProposals, BridgeProposalsCount,
          OpenBridgeProposals, OpenBridgeProposalsHashes,
          OpenBridgeProposalsHashesIndex, EthereumAdressHashes, Balance,
          TotalSupply, events, lastCall, executorCalls, executed, terminal,
          fingerprint, ballots, created>>

\* ------------------------------------------------------ storage maps
Insert(f, k, v) == [x \in (DOMAIN f) \cup {k} |-> IF x = k THEN v ELSE f[x]]
Remove(f, k) == [x \in (DOMAIN f) \ {k} |-> f[x]]
EmptyMap == [x \in {} |-> 0]

\* message_id.using_encoded(Hashing::hash): BlakeTwo256, distinct messages
\* have distinct digests; the all-zero digest is T::Hash::default().
Hash(message_id) == <<"blake2_256", message_id>>
DefaultHash == <<"blake2_256", "default">>

Ethereum2Substrate(token_id, to, amount) ==
    [kind |-> "Ethereum2Substrate", token_id |-> token_id, account |-> to, amount |-> amount]
Substrate2Ethereum(token_id, from, amount) ==
    [kind |-> "Substrate2Ethereum", token_id |-> token_id, account |-> from, amount |-> amount]
EmptyAction ==
    [kind |-> "EmptyAction", token_id |-> 0, account |-> 0, amount |-> 0]

\* The storage a dispatchable works on, threaded through its calls.
Storage ==
    [block |-> block, validators_count |-> validators_count,
     proposals |-> BridgeProposals, count |-> BridgeProposalsCount,
     buckets |-> OpenBridgeProposals, hashes |-> OpenBridgeProposalsHashes,
     hashesIndex |-> OpenBridgeProposalsHashesIndex,
     eth |-> EthereumAdressHashes, balance |-> Balance, supply |-> TotalSupply,
     events |-> <<>>, executorCalls |-> executorCalls, executed |-> executed,
     fingerprint |-> fingerprint, ballots |-> ballots, created |-> created]

Ret(S, res) == [st |-> S, res |-> res]
\* seeded fault: the event is put ahead of the events deposited so far
deposit_event_front(S, e) == [S EXCEPT !.events = <<e>> \o @]

deposit_event(S, e) == [S EXCEPT !.events = Append(@, e)]

\* ------------------------------------------------------ token module
\* token::_mint: credits the account and the total supply, Err on overflow
\* of TokenBalance.
_mint(S, token_id, to, amount) ==
    IF S.supply + amount > MaxBalance
    THEN Ret(S, ErrLedger)
    ELSE Ret([S EXCEPT !.balance[to] = @ + amount, !.supply = @ + amount], OK)

\* token::_burn: debits the account and the total supply, Err when the
\* account holds less than the amount.
_burn(S, token_id, from, amount) ==
    IF S.balance[from] < amount
    THEN Ret(S, ErrLedger)
    ELSE Ret([S EXCEPT !.balance[from] = @ - amount, !.supply = @ - amount], OK)

\* token::check_token_exist for the default token: succeeds and leaves the
\* bridge and the balances alone.
check_token_exist(S, owner) == Ret(S, OK)

\* ------------------------------------------------------------ bridge
\* votes as f64 / validators_count as f64 >= 0.51 . The quotient and the
\* literal are binary fractions rounded to nearest; the model keeps
\* FracBits fraction bits (f64 keeps 52), enough to separate every quotient
\* of the modelled counts from 0.51 .
RoundDiv(a, b) == (2 * a + b) \div (2 * b)
F64Div(a, b) == RoundDiv(a * 2^FracBits, b)
F64Lit051 == RoundDiv(51 * 2^FracBits, 100)

\* seeded fault: the threshold taken as one half
votes_are_enough_half(S, votes) == F64Div(votes, S.validators_count) >= RoundDiv(2^FracBits, 2)

votes_are_enough(S, votes) == F64Div(votes, S.validators_count) >= F64Lit051

\* seeded fault: every action handled like EmptyAction
execute_proposal_noop(S, proposal) ==
    Ret([S EXCEPT !.executorCalls[proposal.proposal_id] = @ + 1,
                  !.executed[proposal.proposal_id] = @ + 1], OK)

execute_proposal(S, proposal) ==
    LET id == proposal.proposal_id
        S1 == [S EXCEPT !.executorCalls[id] = @ + 1]
        r == CASE proposal.action.kind = "Substrate2Ethereum" ->
                    _burn(S1, proposal.action.token_id, proposal.action.account,
                          proposal.action.amount)
               [] proposal.action.kind = "Ethereum2Substrate" ->
                    _mint(S1, proposal.action.token_id, proposal.action.account,
                          proposal.action.amount)
               [] OTHER -> Ret(S1, OK)
    IN  IF r.res = OK
        THEN Ret([r.st EXCEPT !.executed[id] = @ + 1], OK)
        ELSE r

\* seeded fault: the hash -> id entry is left behind
close_proposal_keeps_hash(S, proposal) ==
    [S EXCEPT !.proposals = Insert(@, proposal.proposal_id, [proposal EXCEPT !.open = FALSE]),
              !.hashesIndex = Remove(@, proposal.proposal_id),
              !.ballots = Remove(@, proposal.proposal_id)]

\* seeded fault: the id -> hash entry is left behind
close_proposal_keeps_index(S, proposal) ==
    [S EXCEPT !.proposals = Insert(@, proposal.proposal_id, [proposal EXCEPT !.open = FALSE]),
              !.hashes = Remove(@, IF proposal.proposal_id \in DOMAIN S.hashesIndex
                                   THEN S.hashesIndex[proposal.proposal_id]
                                   ELSE DefaultHash),
              !.ballots = Remove(@, proposal.proposal_id)]

close_proposal(S, proposal) ==
    LET proposal_id == proposal.proposal_id
        closed == [proposal EXCEPT !.open = FALSE]
        proposal_hash == IF proposal_id \in DOMAIN S.hashesIndex
                         THEN S.hashesIndex[proposal_id]
                         ELSE DefaultHash
    IN  [S EXCEPT !.proposals = Insert(@, proposal_id, closed),
                  !.hashes = Remove(@, proposal_hash),
                  !.hashesIndex = Remove(@, proposal_id),
                  !.ballots = Remove(@, proposal_id)]

\* seeded fault: the id is pushed on the deadline bucket before the checks
create_proposal_push_first(S, proposal_hash, action) ==
    LET voting_deadline == S.block + VotingPeriod
        open_proposals == S.buckets[voting_deadline]
        proposal_id == S.count
        pushed == [S EXCEPT !.buckets[voting_deadline] = Append(open_proposals, proposal_id)]
    IN  IF ~(Len(open_proposals) < open_proposals_per_block)
        THEN Ret(pushed, ErrCapacity)
        ELSE IF proposal_hash \in DOMAIN S.hashes
        THEN Ret(pushed, ErrAlreadyOpen)
        ELSE IF S.count = MaxId
        THEN Ret(pushed, ErrOverflow)
        ELSE Ret([pushed EXCEPT
                    !.proposals = Insert(@, proposal_id,
                        [proposal_id |-> proposal_id, action |-> action, open |-> TRUE,
                         voting_deadline |-> voting_deadline, votes_count |-> 0]),
                    !.count = (@ + @ + 1) % 2^IdBits,
                    !.hashes = Insert(@, proposal_hash, proposal_id),
                    !.hashesIndex = Insert(@, proposal_id, proposal_hash),
                    !.executorCalls = Insert(@, proposal_id, 0),
                    !.executed = Insert(@, proposal_id, 0),
                    !.fingerprint = Insert(@, proposal_id, proposal_hash),
                    !.ballots = Insert(@, proposal_id, [v \in Validators |-> 0]),
                    !.created = Append(@, proposal_id)],
                 OK)

\* seeded fault: the counter is advanced by count + 2
create_proposal_plus_two(S, proposal_hash, action) ==
    LET voting_deadline == S.block + VotingPeriod
        open_proposals == S.buckets[voting_deadline]
        proposal_id == S.count
    IN  IF ~(Len(open_proposals) < open_proposals_per_block)
        THEN Ret(S, ErrCapacity)
        ELSE IF proposal_hash \in DOMAIN S.hashes
        THEN Ret(S, ErrAlreadyOpen)
        ELSE IF S.count = MaxId
        THEN Ret(S, ErrOverflow)
        ELSE Ret([S EXCEPT
                    !.proposals = Insert(@, proposal_id,
                        [proposal_id |-> proposal_id, action |-> action, open |-> TRUE,
                         voting_deadline |-> voting_deadline, votes_count |-> 0]),
                    !.count = (@ + @ + 2) % 2^IdBits,
                    !.buckets[voting_deadline] = Append(open_proposals, proposal_id),
                    !.hashes = Insert(@, proposal_hash, proposal_id),
                    !.hashesIndex = Insert(@, proposal_id, proposal_hash),
                    !.executorCalls = Insert(@, proposal_id, 0),
                    !.executed = Insert(@, proposal_id, 0),
                    !.fingerprint = Insert(@, proposal_id, proposal_hash),
                    !.ballots = Insert(@, proposal_id, [v \in Validators |-> 0]),
                    !.created = Append(@, proposal_id)],
                 OK)

\* seeded fault: the proposal counter is not advanced
create_proposal_same_id(S, proposal_hash, action) ==
    LET voting_deadline == S.block + VotingPeriod
        proposal_id == S.count
    IN  IF ~(Len(S.buckets[voting_deadline]) < open_proposals_per_block)
        THEN Ret(S, ErrCapacity)
        ELSE IF proposal_hash \in DOMAIN S.hashes
        THEN Ret(S, ErrAlreadyOpen)
        ELSE Ret([S EXCEPT
                    !.proposals = Insert(@, proposal_id,
                        [proposal_id |-> proposal_id, action |-> action, open |-> TRUE,
                         voting_deadline |-> voting_deadline, votes_count |-> 0]),
                    !.buckets[voting_deadline] = Append(@, proposal_id),
                    !.hashes = Insert(@, proposal_hash, proposal_id),
                    !.hashesIndex = Insert(@, proposal_id, proposal_hash),
                    !.executorCalls = Insert(@, proposal_id, 0),
                    !.executed = Insert(@, proposal_id, 0),
                    !.fingerprint = Insert(@, proposal_id, proposal_hash),
                    !.ballots = Insert(@, proposal_id, [v \in Validators |-> 0]),
                    !.created = Append(@, proposal_id)],
                 OK)

create_proposal(S, proposal_hash, action) ==
    LET voting_deadline == S.block + VotingPeriod
        open_proposals == S.buckets[voting_deadline]
        proposal_id == S.count
        bridge_proposals_count == S.count
    IN  IF ~(Len(open_proposals) < open_proposals_per_block)
        THEN Ret(S, ErrCapacity)
        ELSE IF proposal_hash \in DOMAIN S.hashes
        THEN Ret(S, ErrAlreadyOpen)
        ELSE IF bridge_proposals_count = MaxId      \* checked_add(1) is None
        THEN Ret(S, ErrOverflow)
        ELSE
            LET new_bridge_proposals_count == bridge_proposals_count + 1
                proposal == [proposal_id |-> proposal_id, action |-> action,
                             open |-> TRUE, voting_deadline |-> voting_deadline,
                             votes_count |-> 0]
            IN  Ret([S EXCEPT
                        !.proposals = Insert(@, proposal_id, proposal),
                        !.count = (@ + new_bridge_proposals_count) % 2^IdBits,
                        !.buckets[voting_deadline] = Append(open_proposals, proposal_id),
                        !.hashes = Insert(@, proposal_hash, proposal_id),
                        !.hashesIndex = Insert(@, proposal_id, proposal_hash),
                        !.executorCalls = Insert(@, proposal_id, 0),
                        !.executed = Insert(@, proposal_id, 0),
                        !.fingerprint = Insert(@, proposal_id, proposal_hash),
                        !.ballots = Insert(@, proposal_id, [v \in Validators |-> 0]),
                        !.created = Append(@, proposal_id)],
                    OK)

_vote(S, voter, proposal_id, vote) ==
    IF proposal_id \notin DOMAIN S.proposals
    THEN Ret(S, ErrNotExists)
    ELSE IF ~S.proposals[proposal_id].open
    THEN Ret(S, ErrNotOpen)
    ELSE
        LET stored == S.proposals[proposal_id]
            proposal == IF vote THEN [stored EXCEPT !.votes_count = @ + 1] ELSE stored
            proposal_is_accepted == votes_are_enough(S, proposal.votes_count)
            all_validators_voted == proposal.votes_count = 3
            x == IF proposal_is_accepted THEN execute_proposal(S, proposal) ELSE Ret(S, OK)
        IN  IF x.res # OK
            THEN x
            ELSE
                LET S1 == IF proposal_is_accepted \/ all_validators_voted
                          THEN close_proposal(x.st, proposal)
                          ELSE [x.st EXCEPT !.proposals = Insert(@, proposal_id, proposal)]
                    S2 == IF vote /\ proposal_id \in DOMAIN S1.ballots
                          THEN [S1 EXCEPT !.ballots[proposal_id][voter] = @ + 1]
                          ELSE S1
                    S3 == deposit_event(S2, <<"NewVote", proposal_id, voter, vote>>)
                    S4 == IF proposal_is_accepted
                          THEN deposit_event(S3, <<"ProposalIsAccepted", proposal_id>>)
                          ELSE IF all_validators_voted
                          THEN deposit_event(S3, <<"ProposalIsRejected", proposal_id>>)
                          ELSE S3
                IN  Ret(S4, OK)

\* seeded fault: a submission that resolves an open proposal stores its own
\* action in it
submit_replace(S, validator, proposal_hash, action, proposed, address) ==
    LET c == IF proposal_hash \in DOMAIN S.hashes
             THEN Ret([S EXCEPT !.proposals[S.hashes[proposal_hash]].action = action], OK)
             ELSE LET n == create_proposal(S, proposal_hash, action)
                  IN  IF n.res # OK THEN n
                      ELSE Ret(deposit_event(n.st, <<proposed, action.token_id,
                                                     action.account, action.amount>>), OK)
    IN  IF c.res # OK
        THEN [st |-> c.st, res |-> c.res, proposal_id |-> -1]
        ELSE
            LET proposal_id == c.st.hashes[proposal_hash]
                v == _vote(c.st, validator, proposal_id, TRUE)
            IN  IF v.res # OK
                THEN [st |-> v.st, res |-> v.res, proposal_id |-> proposal_id]
                ELSE [st |-> [v.st EXCEPT !.eth = Insert(@, proposal_id, address)],
                      res |-> OK, proposal_id |-> proposal_id]

\* The part substrate2eth and eth2substrate share: resolve the proposal of
\* the hash or create it, vote, record the Ethereum address.
submit(S, validator, proposal_hash, action, proposed, address) ==
    LET c == IF proposal_hash \in DOMAIN S.hashes
             THEN Ret(S, OK)
             ELSE LET n == create_proposal(S, proposal_hash, action)
                  IN  IF n.res # OK THEN n
                      ELSE Ret(deposit_event(n.st, <<proposed, action.token_id,
                                                     action.account, action.amount>>), OK)
    IN  IF c.res # OK
        THEN [st |-> c.st, res |-> c.res, proposal_id |-> -1]
        ELSE
            LET proposal_id == c.st.hashes[proposal_hash]
                v == _vote(c.st, validator, proposal_id, TRUE)
            IN  IF v.res # OK
                THEN [st |-> v.st, res |-> v.res, proposal_id |-> proposal_id]
                ELSE [st |-> [v.st EXCEPT !.eth = Insert(@, proposal_id, address)],
                      res |-> OK, proposal_id |-> proposal_id]

substrate2eth_call(S, validator, message_id, to, from, amount) ==
    LET proposal_hash == Hash(message_id)
        token_id == DefaultTokenId
        action == Substrate2Ethereum(token_id, from, amount)
    IN  submit(S, validator, proposal_hash, action, "ProposeToBurn", to)

eth2substrate_call(S, validator, message_id, from, to, amount) ==
    LET proposal_hash == Hash(message_id)
        t == check_token_exist(S, validator)
        token_id == DefaultTokenId
        action == Ethereum2Substrate(token_id, to, amount)
    IN  IF t.res # OK
        THEN [st |-> t.st, res |-> t.res, proposal_id |-> -1]
        ELSE submit(t.st, validator, proposal_hash, action, "ProposeToMint", from)

\* seeded fault: expiry only flips the open flag
RECURSIVE expire_flag_only(_, _)
expire_flag_only(S, ids) ==
    IF ids = <<>> THEN S
    ELSE LET proposal_id == Head(ids)
             proposal == S.proposals[proposal_id]
             S1 == IF proposal.open
                   THEN deposit_event([S EXCEPT !.proposals[proposal_id].open = FALSE],
                                      <<"ProposalIsExpired", proposal_id>>)
                   ELSE S
         IN  expire_flag_only(S1, Tail(ids))

RECURSIVE expire(_, _)
expire(S, ids) ==
    IF ids = <<>> THEN S
    ELSE LET proposal_id == Head(ids)
             proposal == S.proposals[proposal_id]
             S1 == IF proposal.open
                   THEN deposit_event(close_proposal(S, proposal),
                                      <<"ProposalIsExpired", proposal_id>>)
                   ELSE S
         IN  expire(S1, Tail(ids))

\* seeded fault: every entry of the bucket is closed and reported, open or not
RECURSIVE expire_all(_, _)
expire_all(S, ids) ==
    IF ids = <<>> THEN S
    ELSE expire_all(deposit_event(close_proposal(S, S.proposals[Head(ids)]),
                                  <<"ProposalIsExpired", Head(ids)>>), Tail(ids))
on_finalize_call_all(S) ==
    [expire_all(S, S.buckets[S.block]) EXCEPT !.buckets[S.block] = <<>>]

\* seeded fault: the bucket is cleared without closing its open proposals
on_finalize_call_clear(S) == [S EXCEPT !.buckets[S.block] = <<>>]

on_finalize_call(S) ==
    LET block_number == S.block
        S1 == expire(S, S.buckets[block_number])
    IN  [S1 EXCEPT !.buckets[block_number] = <<>>]

\* ------------------------------------------------------ state machine
TerminalOf(evs, id) ==
    {evs[i][1] : i \in {j \in 1..Len(evs) :
        /\ evs[j][1] \in {"ProposalIsAccepted", "ProposalIsRejected", "ProposalIsExpired"}
        /\ evs[j][2] = id}}

Commit(S, call) ==
    /\ BridgeProposals' = S.proposals
    /\ BridgeProposalsCount' = S.count
    /\ OpenBridgeProposals' = S.buckets
    /\ OpenBridgeProposalsHashes' = S.hashes
    /\ OpenBridgeProposalsHashesIndex' = S.hashesIndex
    /\ EthereumAdressHashes' = S.eth
    /\ Balance' = S.balance
    /\ TotalSupply' = S.supply
    /\ events' = S.events
    /\ executorCalls' = S.executorCalls
    /\ executed' = S.executed
    /\ fingerprint' = S.fingerprint
    /\ ballots' = S.ballots
    /\ created' = S.created
    /\ terminal' = [id \in DOMAIN S.proposals |->
                      (IF id \in DOMAIN terminal THEN terminal[id] ELSE {})
                      \cup TerminalOf(S.events, id)]
    /\ lastCall' = call
    /\ validators_count' = validators_count

Init ==
    /\ block = 1
    /\ validators_count \in 1..MaxValidators
    /\ BridgeProposals = EmptyMap
    /\ BridgeProposalsCount = 0
    /\ OpenBridgeProposals = [b \in Blocks |-> <<>>]
    /\ OpenBridgeProposalsHashes = EmptyMap
    /\ OpenBridgeProposalsHashesIndex = EmptyMap
    /\ EthereumAdressHashes = EmptyMap
    /\ Balance = [a \in Accounts |-> 0]
    /\ TotalSupply = 0
    /\ events = <<>>
    /\ lastCall = [op |-> "genesis", validator |-> 0, hash |-> DefaultHash,
                   action |-> EmptyAction, res |-> OK, proposal_id |-> -1]
    /\ executorCalls = EmptyMap
    /\ executed = EmptyMap
    /\ terminal = EmptyMap
    /\ fingerprint = EmptyMap
    /\ ballots = EmptyMap
    /\ created = <<>>

\* A submission is modelled while its deadline block is one the model
\* finalizes, and while the executor history stays within MaxCalls.
Admitted(r) ==
    /\ block + VotingPeriod <= MaxBlock
    /\ \A id \in DOMAIN r.st.executorCalls : r.st.executorCalls[id] <= MaxCalls

substrate2eth ==
    \E validator \in Validators, message_id \in Messages, to \in EthAddresses,
       from \in Accounts, amount \in Amounts :
        LET r == substrate2eth_call(Storage, validator, message_id, to, from, amount)
        IN  /\ Admitted(r)
            /\ Commit(r.st, [op |-> "substrate2eth", validator |-> validator,
                             hash |-> Hash(message_id),
                             action |-> Substrate2Ethereum(DefaultTokenId, from, amount),
                             res |-> r.res, proposal_id |-> r.proposal_id])
            /\ block' = block

eth2substrate ==
    \E validator \in Validators, message_id \in Messages, from \in EthAddresses,
       to \in Accounts, amount \in Amounts :
        LET r == eth2substrate_call(Storage, validator, message_id, from, to, amount)
        IN  /\ Admitted(r)
            /\ Commit(r.st, [op |-> "eth2substrate", validator |-> validator,
                             hash |-> Hash(message_id),
                             action |-> Ethereum2Substrate(DefaultTokenId, to, amount),
                             res |-> r.res, proposal_id |-> r.proposal_id])
            /\ block' = block

\* The end of the current block: on_finalize runs, then the host starts the
\* next block (heights strictly increasing, none skipped).
on_finalize ==
    /\ block <= MaxBlock
    /\ Commit(on_finalize_call(Storage),
              [op |-> "on_finalize", validator |-> 0, hash |-> DefaultHash,
               action |-> EmptyAction, res |-> OK, proposal_id |-> -1])
    /\ block' = block + 1

Next == substrate2eth \/ eth2substrate \/ on_finalize

Spec == Init /\ [][Next]_vars

\* Block production never stops: every block is finalized. The chain of
\* this specification is configured with the default ValidatorsCount.
InitDefault == Init /\ validators_count = 3
FairSpec == InitDefault /\ [][Next]_vars /\ WF_vars(on_finalize)

\* ------------------------------------------------------------ claims
Ids == DOMAIN BridgeProposals
IsSubmission(call) == call.op \in {"substrate2eth", "eth2substrate"}
Threshold(votes) == votes * 100 >= 51 * validators_count
Accepted(id) == id \in DOMAIN terminal /\ "ProposalIsAccepted" \in terminal[id]
Rejected(id) == id \in DOMAIN terminal /\ "ProposalIsRejected" \in terminal[id]
Expired(id) == id \in DOMAIN terminal /\ "ProposalIsExpired" \in terminal[id]
\* the tally a submission finds: the stored count, 0 for a proposal it creates
VotesBefore(id) == IF id \in Ids THEN BridgeProposals[id].votes_count ELSE 0

\* C1: the executor is invoked at most once in a proposal's lifetime, and
\* only in the vote step in which the proposal becomes Accepted, also when
\* an executor call returns an error.
ExactlyOnceExecution ==
    \A id \in Ids :
        /\ executorCalls[id] <= 1
        /\ executorCalls[id] >= 1 => Accepted(id)

\* C2: ProposalIsAccepted is emitted for a proposal only in a vote step on
\* that proposal after which votes_count*100 >= 51*validators_count and in
\* which its action was executed; an Accepted proposal is closed, stays
\* closed and never gets a Rejected or Expired notification.
AcceptedOnlyAtThreshold ==
    \A id \in DOMAIN BridgeProposals' :
        "ProposalIsAccepted" \in TerminalOf(events', id) =>
            /\ IsSubmission(lastCall') /\ lastCall'.proposal_id = id
            /\ lastCall'.res = OK
            /\ Threshold(BridgeProposals'[id].votes_count)
            /\ BridgeProposals'[id].votes_count = VotesBefore(id) + 1
            /\ executed'[id] = 1
AcceptedNeverRegresses ==
    \A id \in Ids :
        Accepted(id) =>
            /\ ~BridgeProposals[id].open
            /\ terminal[id] = {"ProposalIsAccepted"}
            /\ Threshold(BridgeProposals[id].votes_count)
\* C2: acceptance happens only at the threshold and never regresses (the
\* state part and the step part above, together).
ThresholdMonotonicity ==
    /\ [](AcceptedNeverRegresses)
    /\ [][AcceptedOnlyAtThreshold /\ (AcceptedNeverRegresses => AcceptedNeverRegresses')]_vars
ThresholdMonotonicityWitness ==
    \E id \in Ids :
        /\ Accepted(id)
        /\ validators_count = 5
        /\ BridgeProposals[id].votes_count = 3
        /\ lastCall.op = "on_finalize"

Ledger == <<Balance, TotalSupply>>
\* the ledger after the action: a mint credits, a burn debits
LedgerAfter(action) ==
    LET d == IF action.kind = "Ethereum2Substrate" THEN action.amount
             ELSE IF action.kind = "Substrate2Ethereum" THEN 0 - action.amount
             ELSE 0
    IN  <<[Balance EXCEPT ![action.account] = @ + d], TotalSupply + d>>
\* the step is a submission that votes on id (resolved or just created),
\* and its assenting vote brings the tally to the threshold
ReachesThreshold(id) ==
    /\ IsSubmission(lastCall') /\ lastCall'.proposal_id = id
    /\ id \in Ids => BridgeProposals[id].open
    /\ Threshold(VotesBefore(id) + 1)

DedupConvergence ==
    [][(IsSubmission(lastCall') /\ lastCall'.hash \in DOMAIN OpenBridgeProposalsHashes) =>
         LET p == OpenBridgeProposalsHashes[lastCall'.hash]
         IN  /\ lastCall'.proposal_id = p
             /\ DOMAIN BridgeProposals' = Ids
             /\ BridgeProposals'[p].votes_count = BridgeProposals[p].votes_count + 1]_vars

\* C5: a proposal is created with deadline block + VotingPeriod; the
\* on_finalize of a block closes every proposal still open whose deadline
\* is that block, with ProposalIsExpired and without touching the executor
\* or the ledger, and expires nothing else; no proposal is open after the
\* on_finalize of its deadline block; an Expired proposal was never
\* executed and never is; every proposal is eventually closed.
ExpiryStep ==
    /\ \A id \in DOMAIN BridgeProposals' \ Ids :
            BridgeProposals'[id].voting_deadline = block + VotingPeriod
    /\ \A id \in Ids :
        LET due == /\ lastCall'.op = "on_finalize"
                   /\ BridgeProposals[id].open
                   /\ BridgeProposals[id].voting_deadline = block
        IN  /\ due => /\ ~BridgeProposals'[id].open
                      /\ events' # <<>>
                      /\ TerminalOf(events', id) = {"ProposalIsExpired"}
                      /\ executorCalls' = executorCalls /\ executed' = executed
                      /\ Ledger' = Ledger
            /\ "ProposalIsExpired" \in TerminalOf(events', id) => due
            /\ Expired(id) => executorCalls'[id] = executorCalls[id]
ExpiryState ==
    \A id \in Ids :
        /\ BridgeProposals[id].open => BridgeProposals[id].voting_deadline >= block
        /\ Expired(id) => /\ ~BridgeProposals[id].open
                          /\ executed[id] = 0
                          /\ terminal[id] = {"ProposalIsExpired"}
\* C5: the expiry bound: the state part, the step part, and every proposal
\* closed again and again as blocks are finalized.
ExpiryBound ==
    /\ []ExpiryState
    /\ [][ExpiryStep]_vars
    /\ []<>(\A id \in Ids : ~BridgeProposals[id].open)
ExpiryBoundWitness ==
    \E id \in Ids :
        /\ Expired(id)
        /\ lastCall.op = "on_finalize"
        /\ <<"ProposalIsExpired", id>> = events[Len(events)]
        /\ BridgeProposals[id].votes_count = 1
        /\ executorCalls[id] = 0
        /\ block = BridgeProposals[id].voting_deadline + 1

\* C6: a record with open = false is never changed again, by no
\* submission, vote, on_finalize or later creation.
ClosedRecordsImmutable ==
    [][\A id \in Ids :
         ~BridgeProposals[id].open =>
            /\ id \in DOMAIN BridgeProposals'
            /\ BridgeProposals'[id] = BridgeProposals[id]]_vars
ClosedRecordsImmutableWitness ==
    \E id \in Ids :
        /\ ~BridgeProposals[id].open
        /\ IsSubmission(lastCall) /\ lastCall.res = OK
        /\ lastCall.proposal_id \in Ids /\ lastCall.proposal_id > id
        /\ fingerprint[lastCall.proposal_id] = fingerprint[id]
        /\ BridgeProposals[lastCall.proposal_id].action # BridgeProposals[id].action

\* C7 as claimed: with validators_count = 3, after the proposal of an
\* event was accepted at its second vote and credited the ledger once, the
\* third eth2substrate submission of the same event fails with the
\* not-open error.
LateThird(p) ==
    /\ validators_count = 3
    /\ Accepted(p) /\ executed[p] = 1
    /\ BridgeProposals[p].votes_count = 2
    /\ BridgeProposals[p].action.kind = "Ethereum2Substrate"
    /\ \A q \in Ids : fingerprint[q] = fingerprint[p] => q = p
    /\ lastCall'.op = "eth2substrate"
    /\ lastCall'.hash = fingerprint[p]
    /\ lastCall'.action = BridgeProposals[p].action
\* C7 as claimed: the late third submission fails with the not-open error
\* and the ledger stays credited once.
LateThirdAttestationNotOpen ==
    [][\A p \in Ids :
         LateThird(p) => /\ lastCall'.res = ErrNotOpen
                         /\ executed'[p] = 1]_vars

\* C7 as amended: the third submission does not fail with the not-open
\* error: acceptance freed the fingerprint, so it creates a new open
\* proposal for the event holding one vote, or fails with the capacity or
\* overflow error; the accepted proposal and the ledger, credited once,
\* are left as they were.
LateThirdAttestationReopens ==
    [][\A p \in Ids :
         LateThird(p) =>
            /\ lastCall'.res \in {OK, ErrCapacity, ErrOverflow}
            /\ BridgeProposals'[p] = BridgeProposals[p]
            /\ executed'[p] = 1 /\ executorCalls'[p] = 1
            /\ Ledger' = Ledger
            /\ IF lastCall'.res = OK
               THEN LET q == lastCall'.proposal_id
                    IN  /\ q \notin Ids /\ q > p
                        /\ DOMAIN BridgeProposals' = Ids \cup {q}
                        /\ BridgeProposals'[q].open
                        /\ BridgeProposals'[q].votes_count = 1
                        /\ fingerprint'[q] = fingerprint[p]
               ELSE DOMAIN BridgeProposals' = Ids]_vars
LateThirdAttestationWitness ==
    \E p \in Ids :
        /\ validators_count = 3
        /\ Accepted(p) /\ BridgeProposals[p].votes_count = 2
        /\ lastCall.op = "eth2substrate" /\ lastCall.res = OK
        /\ lastCall.proposal_id \in Ids \ {p}
        /\ fingerprint[lastCall.proposal_id] = fingerprint[p]
        /\ BridgeProposals[lastCall.proposal_id].action = BridgeProposals[p].action
        /\ BridgeProposals[lastCall.proposal_id].votes_count = 1
        /\ TotalSupply = 1

\* C8: a closed proposal holds no fingerprint; a submission whose
\* fingerprint is free after an earlier proposal of it was closed creates
\* a new proposal under a new id with no prior votes and the submission's
\* action, unless it fails with one of the errors in Refusals.
FingerprintFree ==
    \A p \in Ids :
        ~BridgeProposals[p].open =>
            /\ p \notin DOMAIN OpenBridgeProposalsHashesIndex
            /\ \A h \in DOMAIN OpenBridgeProposalsHashes : OpenBridgeProposalsHashes[h] # p
Resubmission ==
    /\ IsSubmission(lastCall')
    /\ lastCall'.hash \notin DOMAIN OpenBridgeProposalsHashes
    /\ \E p \in Ids : fingerprint[p] = lastCall'.hash
ReuseStep(Refusals) ==
    Resubmission =>
        IF lastCall'.res \in Refusals
        THEN BridgeProposals' = BridgeProposals
        ELSE LET q == lastCall'.proposal_id
             IN  /\ q \notin Ids
                 /\ DOMAIN BridgeProposals' = Ids \cup {q}
                 /\ BridgeProposals'[q].proposal_id = q
                 /\ BridgeProposals'[q].action = lastCall'.action
                 /\ BridgeProposals'[q].voting_deadline = block + VotingPeriod
                 /\ BridgeProposals'[q].votes_count = (IF lastCall'.res = OK THEN 1 ELSE 0)
                 /\ fingerprint'[q] = lastCall'.hash
\* C8 as claimed: the only refusal is the capacity limit.
FingerprintReuse ==
    []FingerprintFree /\ [][ReuseStep({ErrCapacity})]_vars
\* C8 as amended: the refusals are the capacity limit and the overflow of
\* the proposal counter.
FingerprintReuseOrOverflow ==
    []FingerprintFree /\ [][ReuseStep({ErrCapacity, ErrOverflow})]_vars
FingerprintReuseWitness ==
    \E p, q \in Ids :
        /\ p < q /\ fingerprint[p] = fingerprint[q]
        /\ Expired(p)
        /\ Accepted(q) /\ executed[q] = 1
        /\ lastCall.proposal_id = q

\* C9: a submission that would create a proposal fails with the capacity
\* error exactly when the open proposals whose deadline is block +
\* VotingPeriod already number open_proposals_per_block; closed proposals
\* of that bucket do not count.
OpenAtDeadline(d) ==
    {id \in Ids : BridgeProposals[id].open /\ BridgeProposals[id].voting_deadline = d}
\* C9: the capacity error is returned exactly when the open proposals of
\* the target deadline number open_proposals_per_block or more.
CapacityBackPressure ==
    [][(IsSubmission(lastCall') /\ lastCall'.hash \notin DOMAIN OpenBridgeProposalsHashes) =>
         (lastCall'.res = ErrCapacity
            <=> Cardinality(OpenAtDeadline(block + VotingPeriod)) >= open_proposals_per_block)]_vars

\* C10: when the executor returns an error in the vote that reaches the
\* threshold, the proposal is closed in that step and removed from the
\* dedup index.
ExecutorFailureStillCloses ==
    (IsSubmission(lastCall) /\ lastCall.res = ErrLedger) =>
        /\ ~BridgeProposals[lastCall.proposal_id].open
        /\ lastCall.hash \notin DOMAIN OpenBridgeProposalsHashes
        /\ lastCall.proposal_id \notin DOMAIN OpenBridgeProposalsHashesIndex

\* --------------------------------------------------------- validators
\* The accounts registered in the Validators / ValidatorsAccounts maps.
\* The maps have no genesis configuration and no call writes them.
ValidatorsAccounts == {}

\* C11: a submission whose signed caller is not a registered validator is
\* rejected, creates no proposal and adds no vote to any tally.
ValidatorOnlyVoting ==
    [][(IsSubmission(lastCall') /\ lastCall'.validator \notin ValidatorsAccounts) =>
         /\ lastCall'.res # OK
         /\ DOMAIN BridgeProposals' = Ids
         /\ \A id \in Ids :
              BridgeProposals'[id].votes_count = BridgeProposals[id].votes_count]_vars

\* C12: every caller contributes at most one vote to the tally of an open
\* proposal, and with validators_count >= 2 no proposal is accepted on the
\* votes of a single caller.
OneVotePerValidator ==
    /\ [](\A id \in DOMAIN ballots : \A v \in Validators : ballots[id][v] <= 1)
    /\ [][\A id \in Ids :
            ("ProposalIsAccepted" \in TerminalOf(events', id) /\ validators_count >= 2) =>
                \E w \in Validators \ {lastCall'.validator} :
                    id \in DOMAIN ballots /\ ballots[id][w] >= 1]_vars

\* C13: a vote step emits ProposalIsRejected for a proposal, and closes it
\* without executing it, exactly when after the vote votes_count equals
\* validators_count and the threshold is not met; no proposal is Rejected
\* on fewer votes than validators_count.
FullTurnoutRejection ==
    [][\A id \in DOMAIN BridgeProposals' :
         LET votes == BridgeProposals'[id].votes_count
             voted == /\ IsSubmission(lastCall') /\ lastCall'.res = OK
                      /\ lastCall'.proposal_id = id
         IN  /\ "ProposalIsRejected" \in TerminalOf(events', id)
                    <=> (voted /\ votes = validators_count /\ ~Threshold(votes))
             /\ "ProposalIsRejected" \in TerminalOf(events', id) =>
                    /\ ~BridgeProposals'[id].open
                    /\ executorCalls'[id] = 0]_vars

\* C14: a submission that fails with the not-found, not-open, already-open,
\* capacity or overflow error leaves the proposal store, the proposal
\* counter, both dedup maps and every deadline bucket as they were.
TypedErrors == {ErrNotExists, ErrNotOpen, ErrAlreadyOpen, ErrCapacity, ErrOverflow}
NoPartialWrites ==
    [][(IsSubmission(lastCall') /\ lastCall'.res \in TypedErrors) =>
         /\ BridgeProposals' = BridgeProposals
         /\ BridgeProposalsCount' = BridgeProposalsCount
         /\ OpenBridgeProposalsHashes' = OpenBridgeProposalsHashes
         /\ OpenBridgeProposalsHashesIndex' = OpenBridgeProposalsHashesIndex
         /\ OpenBridgeProposals' = OpenBridgeProposals
         /\ events' = <<>>]_vars
NoPartialWritesWitness ==
    /\ IsSubmission(lastCall) /\ lastCall.res = ErrOverflow
    /\ BridgeProposalsCount = MaxId
    /\ \E id \in Ids : BridgeProposals[id].open
    /\ lastCall.hash \notin DOMAIN OpenBridgeProposalsHashes

\* C15: every open proposal's id is in exactly one deadline bucket, the one
\* of its voting_deadline, once; on_finalize closes and reports as Expired
\* only the entries of its bucket that are still open, leaves the closed
\* ones alone, and empties the bucket it processed.
Occurrences(seq, x) == Cardinality({i \in 1..Len(seq) : seq[i] = x})
DeadlineIndexState ==
    \A id \in Ids :
        BridgeProposals[id].open =>
            /\ BridgeProposals[id].voting_deadline \in DOMAIN OpenBridgeProposals
            /\ \A b \in DOMAIN OpenBridgeProposals :
                 Occurrences(OpenBridgeProposals[b], id)
                    = (IF b = BridgeProposals[id].voting_deadline THEN 1 ELSE 0)
DeadlineIndexStep ==
    /\ lastCall'.op = "on_finalize" =>
        /\ OpenBridgeProposals' = [OpenBridgeProposals EXCEPT ![block] = <<>>]
        /\ DOMAIN BridgeProposals' = Ids
        /\ \A id \in Ids :
             IF BridgeProposals[id].open /\ Occurrences(OpenBridgeProposals[block], id) > 0
             THEN /\ BridgeProposals'[id] = [BridgeProposals[id] EXCEPT !.open = FALSE]
                  /\ Occurrences(events', <<"ProposalIsExpired", id>>) = 1
             ELSE /\ BridgeProposals'[id] = BridgeProposals[id]
                  /\ TerminalOf(events', id) = {}
        /\ \A i \in 1..Len(events') : events'[i][1] = "ProposalIsExpired"
    /\ lastCall'.op # "on_finalize" =>
        \A i \in 1..Len(events') : events'[i][1] # "ProposalIsExpired"
DeadlineIndex ==
    []DeadlineIndexState /\ [][DeadlineIndexStep]_vars
DeadlineIndexWitness ==
    \E p, q \in Ids :
        /\ lastCall.op = "on_finalize"
        /\ Accepted(p) /\ Expired(q)
        /\ BridgeProposals[p].voting_deadline = block - 1
        /\ BridgeProposals[q].voting_deadline = block - 1
        /\ events = <<<<"ProposalIsExpired", q>>>>
        /\ OpenBridgeProposals[block - 1] = <<>>

\* C16: the hash -> id map and the id -> hash map are inverses of each
\* other, a hash maps to one proposal, and a proposal id has an entry
\* exactly while the proposal is open: the entry made at its creation.
DedupIndexConsistent ==
    /\ \A h \in DOMAIN OpenBridgeProposalsHashes :
         LET id == OpenBridgeProposalsHashes[h]
         IN  id \in DOMAIN OpenBridgeProposalsHashesIndex
                /\ OpenBridgeProposalsHashesIndex[id] = h
    /\ \A id \in DOMAIN OpenBridgeProposalsHashesIndex :
         LET h == OpenBridgeProposalsHashesIndex[id]
         IN  /\ h \in DOMAIN OpenBridgeProposalsHashes
             /\ OpenBridgeProposalsHashes[h] = id
             /\ id \in Ids /\ h = fingerprint[id]
    /\ \A id \in Ids :
         BridgeProposals[id].open <=> id \in DOMAIN OpenBridgeProposalsHashesIndex
DedupIndexConsistentWitness ==
    \E p, q \in Ids :
        /\ Rejected(p) /\ BridgeProposals[q].open
        /\ fingerprint[p] = fingerprint[q]
        /\ OpenBridgeProposalsHashes[fingerprint[q]] = q
        /\ OpenBridgeProposalsHashesIndex = (q :> fingerprint[q])

\* C17: BridgeProposalsCount equals the number of proposals created so
\* far, the ids handed out are 0, 1, 2, ... in that order, and a creation
\* fails with the overflow error only when the counter is at the maximum
\* of the id type.
ProposalCounter ==
    /\ [](/\ BridgeProposalsCount = Len(created)
          /\ \A i \in 1..Len(created) : created[i] = i - 1)
    /\ [][lastCall'.res = ErrOverflow => BridgeProposalsCount = MaxId]_vars

\* C18: a successful submission emits exactly one NewVote, for the proposal
\* it voted on and its caller, ahead of any terminal notification of the
\* step; no other step emits NewVote; a proposal gets at most one terminal
\* notification in its lifetime, so Accepted, Rejected and Expired exclude
\* each other.
TerminalNames == {"ProposalIsAccepted", "ProposalIsRejected", "ProposalIsExpired"}
NewVotes(evs) == {i \in 1..Len(evs) : evs[i][1] = "NewVote"}
TerminalsAt(evs, id) == {i \in 1..Len(evs) : evs[i][1] \in TerminalNames /\ evs[i][2] = id}
NotificationStep ==
    /\ IF IsSubmission(lastCall') /\ lastCall'.res = OK
       THEN \E i \in 1..Len(events') :
                /\ NewVotes(events') = {i}
                /\ events'[i] = <<"NewVote", lastCall'.proposal_id, lastCall'.validator, TRUE>>
                /\ \A j \in 1..Len(events') : events'[j][1] \in TerminalNames => i < j
       ELSE NewVotes(events') = {}
    /\ \A id \in DOMAIN BridgeProposals' :
         /\ Cardinality(TerminalsAt(events', id)) <= 1
         /\ (id \in DOMAIN terminal /\ terminal[id] # {}) => TerminalsAt(events', id) = {}
Notifications ==
    /\ [](\A id \in Ids : Cardinality(terminal[id]) <= 1)
    /\ [][NotificationStep]_vars
NotificationsWitness ==
    \E p, q \in Ids :
        /\ Expired(p)
        /\ lastCall.op = "eth2substrate" /\ lastCall.proposal_id = q
        /\ events = <<<<"ProposeToMint", DefaultTokenId, 1, 1>>,
                      <<"NewVote", q, lastCall.validator, TRUE>>,
                      <<"ProposalIsAccepted", q>>>>

\* C19: a proposal's action is the action of the submission that created
\* it and is never replaced; a submission whose message id has an open
\* proposal creates nothing and changes nothing of that proposal but its
\* tally and, on acceptance, its open flag, whatever action and entry point
\* it carries; and what is executed is the stored action.
ActionFixedStep ==
    /\ \A id \in DOMAIN BridgeProposals' \ Ids :
         IsSubmission(lastCall') /\ BridgeProposals'[id].action = lastCall'.action
    /\ \A id \in Ids :
         id \in DOMAIN BridgeProposals'
            /\ BridgeProposals'[id].action = BridgeProposals[id].action
    /\ (IsSubmission(lastCall') /\ lastCall'.hash \in DOMAIN OpenBridgeProposalsHashes) =>
         LET p == OpenBridgeProposalsHashes[lastCall'.hash]
         IN  /\ lastCall'.proposal_id = p
             /\ DOMAIN BridgeProposals' = Ids
             /\ \A id \in Ids \ {p} : BridgeProposals'[id] = BridgeProposals[id]
             /\ \E n \in {0, 1}, o \in BOOLEAN :
                  BridgeProposals'[p] = [BridgeProposals[p] EXCEPT
                                            !.votes_count = @ + n, !.open = o]
             /\ BridgeProposalsCount' = BridgeProposalsCount
    /\ \A id \in DOMAIN BridgeProposals' :
         executed'[id] # (IF id \in Ids THEN executed[id] ELSE 0) =>
            Ledger' = LedgerAfter(BridgeProposals'[id].action)
ActionFixedAtCreation == [][ActionFixedStep]_vars
ActionFixedAtCreationWitness ==
    \E p \in Ids :
        /\ lastCall.op = "substrate2eth" /\ lastCall.res = OK
        /\ lastCall.proposal_id = p
        /\ lastCall.action.kind = "Substrate2Ethereum"
        /\ BridgeProposals[p].action = Ethereum2Substrate(DefaultTokenId, 1, 1)
        /\ BridgeProposals[p].votes_count >= 2
        /\ Accepted(p) /\ executed[p] = 1
        /\ Balance[1] = 1 /\ TotalSupply = 1

\* C20: the ids handed out are strictly increasing and none is the id of
\* an existing record; whenever a creation passes the checked_add(1) guard,
\* count + count + 1 fits the id type, so the stored counter is that sum
\* and not a wrapped value.
UniqueIdsStep ==
    \A id \in DOMAIN BridgeProposals' \ Ids :
        /\ id = BridgeProposalsCount
        /\ created' = Append(created, id)
        /\ \A i \in 1..Len(created) : created[i] < id
        /\ BridgeProposalsCount # MaxId
        /\ BridgeProposalsCount + BridgeProposalsCount + 1 <= MaxId
        /\ BridgeProposalsCount' = BridgeProposalsCount + BridgeProposalsCount + 1
UniqueIdsNoWrap ==
    /\ [](/\ \A i, j \in 1..Len(created) : i < j => created[i] < created[j]
          /\ Ids = {created[i] : i \in 1..Len(created)}
          /\ \A id \in Ids : BridgeProposals[id].proposal_id = id)
    /\ [][UniqueIdsStep /\ (DOMAIN BridgeProposals' = Ids => created' = created)]_vars
UniqueIdsNoWrapWitness ==
    /\ Len(created) >= 2
    /\ BridgeProposalsCount = MaxId
    /\ IsSubmission(lastCall) /\ lastCall.res = OK
    /\ lastCall.proposal_id = created[Len(created)]
    /\ BridgeProposals[lastCall.proposal_id].votes_count = 1

====
